---- MODULE Spec2Model ----
(***************************************************************************)
(* The progress-tracking hook useRealtimeProgress                          *)
(* (src/src/hooks/useRealtimeProgress.ts) as a timed state machine.        *)
(*                                                                         *)
(* One hook instance is modelled together with its environment: the        *)
(* agent_progress table (store), the realtime client (channels), the       *)
(* browser's timers (intervals, timeouts) and the requests in flight       *)
(* (inflight).  Time is discrete: Tick advances every clock by Quantum     *)
(* milliseconds, and a timer that is due fires before time advances.       *)
(* Date.now() - lastFetchRef.current is kept as an age (lastFetchAge)      *)
(* that saturates at MinFetchInterval, the only value line 62 compares it  *)
(* with.                                                                   *)
(***************************************************************************)
EXTENDS Integers, Sequences, FiniteSets, TLC

(***************************************************************************)
(* Program constants (milliseconds).                                       *)
(***************************************************************************)
MinFetchInterval == 500
DebounceDelay == 100
PollInterval == 3000

\* Resolution of the model's clock: half the shortest delay of the program.
Quantum == DebounceDelay \div 2

(***************************************************************************)
(* Bounds of the model.                                                    *)
(***************************************************************************)
MaxSubs == 2
MaxWrites == 1
MaxInFlight == 2
MaxPushes == 1
MaxFailures == 1
\* The store answers, and the continuation runs, within MaxLatency quanta.
MaxLatency == 12
BurstSize == 10
\* The aggregator is observed on batches of at most MaxBatch rows whose
\* timestamps are 1..MaxStamp, or 0 for a row without one.
MaxBatch == 2
MaxStamp == 2
\* Toasts and changes of the visible state are counted up to MaxToasts.
MaxToasts == 3
\* Queries created through the form in one behaviour, and the length of
\* the topics typed into it.
MaxCreations == 2
MaxTopic == 1
\* Result fetches of a ResultsDisplay in one behaviour.
MaxResultFetches == 3
\* Password updates requested in one behaviour.
MaxUpdates == 2

Null == "null"
QueryIds == {"q1", "q2"}
Agents == {"Browser Agent", "Researcher Agent"}
\* (status, progress) pairs the pipeline writes.
Updates == {<<"completed", 100>>, <<"error", 40>>}

NoChannel == [sub |-> 0, query |-> Null]

\* The rows the store holds when the hook first renders: the first progress
\* row of each query.
SeedRows ==
    << [query_id |-> "q1", agent_name |-> "Browser Agent", status |-> "active",
        progress |-> 40, updated_at |-> 1],
       [query_id |-> "q2", agent_name |-> "Browser Agent", status |-> "active",
        progress |-> 40, updated_at |-> 2] >>

VARIABLES
    mounted,        \* "no" before the first render, "yes", "gone" after unmount
    queryId,        \* the queryId of the last effect run
    agentProgress,  \* useState: the visible aggregated state
    channelRef,     \* useRef: the channel of the hook, or NoChannel
    lastFetchAge,   \* Date.now() - lastFetchRef.current, saturated
    channels,       \* the channels the realtime client holds open
    intervals,      \* live setInterval timers: [sub, due]
    timeouts,       \* pending setTimeout timers in registration order
    inflight,       \* store requests awaiting their continuation
    store,          \* the rows of agent_progress, in insertion order
    subsOpened,     \* number of effect runs that subscribed so far
    effectLog,      \* history: what the last effect run did, in order
    writer,         \* history: who wrote agentProgress last, and for which query
    fresh,          \* history: result of the newest-started completed fetch
    sinceStart,     \* history: age of the last store read's start
    sinceDone,      \* history: age of the last store read's completion
    lastStart,      \* history: both ages as the last store read started
    failures,       \* number of store requests that failed so far
    pushes,         \* number of notifications the feed delivered so far
    storm,          \* history: the push burst under observation
    stale,          \* history: how long the visible state has lagged the store
    failure,        \* history: the last failed store request and what it left
    batch,          \* line 69: the data under aggregation, when the aggregator is observed
    latest,         \* line 91: Object.values(latestProgressByAgent) of the batch
    mapped,         \* line 91: mappedProgress of the batch
    aggregated,     \* the batch has been aggregated
    toasts,         \* Dashboard: 'Agent Error' toasts fired so far
    transitions,    \* history: times the value of agentProgress changed
    queryStatus,    \* ProgressTracker: the status of the query prop
    currentStep,    \* ProgressTracker useState: the step shown
    session,        \* supabase.auth: the session of the client, or NoSession
    user,           \* AuthProvider useState: the user of the last auth event
    research_queries, \* the rows of research_queries, in insertion order
    queries,        \* useResearch: the data of the queries list, [loaded, data]
    formData,       \* ResearchForm useState
    lastSubmit,     \* history: what the last handleSubmit saw and did
    mutations,      \* the createQuery mutations and where each one stands
    posts,          \* the POST /api/research-agent requests sent, in order
    selectedQueryId, \* Dashboard useState, NoId for null
    selectTimers,   \* Dashboard: pending 1000 ms callbacks of handleQuerySubmit
    loading,        \* AuthProvider useState: no auth event has arrived yet
    urlId,          \* the id parameter of the page's URL, NoId when there is none
    resultsQuery,   \* ResultsDisplay: the query prop of the last render
    resultFetches,  \* ResultsDisplay: the research_results fetches issued, in order
    password,       \* ResetPassword useState
    resetLoading,   \* ResetPassword useState: loading
    sessionSet,     \* ResetPassword useState
    recovery,       \* ResetPassword: the auth listener of the effect, and what it saw
    updates,        \* the supabase.auth.updateUser calls made, and their state
    lastReset       \* history: what the last handleReset saw and did

vars == <<mounted, queryId, agentProgress, channelRef, lastFetchAge, channels,
          intervals, timeouts, inflight, store, subsOpened, effectLog, writer,
          fresh, sinceStart, sinceDone, lastStart, failures, pushes, storm,
          stale, failure, batch, latest, mapped, aggregated, toasts, transitions,
          queryStatus, currentStep, session, user, research_queries, queries,
          formData, lastSubmit, mutations, posts, selectedQueryId, selectTimers,
          loading, urlId, resultsQuery, resultFetches,
          password, resetLoading, sessionSet, recovery, updates, lastReset>>

\* The state of the ResetPassword page.
resetVars == <<password, resetLoading, sessionSet, recovery, updates, lastReset>>

\* The variables of the application around the hook: authentication, the
\* research form, query creation and the Dashboard's selection.
appVars == <<session, user, research_queries, queries, formData, lastSubmit,
             mutations, posts, selectedQueryId, selectTimers, loading, urlId,
             resultsQuery, resultFetches, resetVars>>

\* The application's variables outside ResultsDisplay and ResetPassword.
appOther == <<session, user, research_queries, queries, formData, lastSubmit,
              mutations, posts, selectedQueryId, selectTimers, loading, urlId>>

\* The subscription (effect closure) that is live, 0 when there is none.
ActiveSub == IF mounted = "yes" /\ queryId # Null THEN subsOpened ELSE 0

(***************************************************************************)
(* Sequences.                                                              *)
(***************************************************************************)
RemoveAt(s, i) == SubSeq(s, 1, i - 1) \o SubSeq(s, i + 1, Len(s))

SelectRows(s, q) == SelectSeq(s, LAMBDA r : r.query_id = q)

\* new Date(a || '') > new Date(b || ''): an invalid date compares false.
DateGreater(a, b) == a # 0 /\ b # 0 /\ a > b

\* ORDER BY updated_at DESC as the store answers it: rows without a
\* timestamp (0) first, equal timestamps in insertion order.
OrderKey(r) == IF r.updated_at = 0 THEN 1000000 ELSE r.updated_at

RECURSIVE InsertDesc(_, _)
InsertDesc(sorted, r) ==
    IF sorted = <<>> THEN <<r>>
    ELSE IF OrderKey(Head(sorted)) >= OrderKey(r)
         THEN <<Head(sorted)>> \o InsertDesc(Tail(sorted), r)
         ELSE <<r>> \o sorted

RECURSIVE OrderDesc(_)
OrderDesc(rows) ==
    IF rows = <<>> THEN <<>>
    ELSE InsertDesc(OrderDesc(SubSeq(rows, 1, Len(rows) - 1)), rows[Len(rows)])

\* .from('agent_progress').select('*').eq('query_id', q).order(...)
FetchRows(q) == OrderDesc(SelectRows(store, q))

(***************************************************************************)
(* The aggregation of a fetched batch (lines 83-96).  The accumulator      *)
(* object is kept as the sequence of its rows in the order in which        *)
(* Object.values enumerates them: the rows under integer keys first, in    *)
(* ascending order of the key, then the rows under the other keys in the   *)
(* order the keys were added.                                              *)
(***************************************************************************)
\* The agent names that are canonical array indices, hence integer keys of
\* the accumulator object, and the integer such a name stands for.
IndexNames == {"1", "2"}

ArrayIndex(name) == IF name = "1" THEN 1 ELSE 2

\* acc[item.agent_name] = item for a key acc does not have: an integer key
\* goes before the first row whose key is a greater integer or no integer,
\* any other key goes last.
AddKey(acc, item) ==
    IF item.agent_name \notin IndexNames THEN Append(acc, item)
    ELSE LET before == {k \in 1..Len(acc) :
                          /\ acc[k].agent_name \in IndexNames
                          /\ ArrayIndex(acc[k].agent_name) < ArrayIndex(item.agent_name)}
             n == Cardinality(before)
         IN  SubSeq(acc, 1, n) \o <<item>> \o SubSeq(acc, n + 1, Len(acc))

IndexOfAgent(acc, name) ==
    LET hits == {i \in 1..Len(acc) : acc[i].agent_name = name}
    IN  IF hits = {} THEN 0 ELSE CHOOSE i \in hits : TRUE

ReduceStep(acc, item) ==
    LET i == IndexOfAgent(acc, item.agent_name)
    IN  IF i = 0 THEN AddKey(acc, item)
        ELSE IF DateGreater(item.updated_at, acc[i].updated_at)
             THEN [acc EXCEPT ![i] = item]
             ELSE acc

RECURSIVE latestProgressByAgent(_)
latestProgressByAgent(data) ==
    IF data = <<>> THEN <<>>
    ELSE ReduceStep(latestProgressByAgent(SubSeq(data, 1, Len(data) - 1)),
                    data[Len(data)])

\* A mapping that keeps only the statuses the views know.
MapItemKnown(item) ==
    [name |-> item.agent_name,
     status |-> IF item.status \in {"waiting", "active", "completed", "error"}
                THEN item.status ELSE "waiting",
     progress |-> item.progress]

\* lines 92-95.  item.status || 'waiting' replaces null and the empty string.
MapItem(item) ==
    [name |-> item.agent_name,
     status |-> IF item.status \in {Null, ""} THEN "waiting" ELSE item.status,
     progress |-> item.progress]

mappedProgress(data) ==
    LET values == latestProgressByAgent(data)
    IN  [i \in 1..Len(values) |-> MapItem(values[i])]

(***************************************************************************)
(* Initial state: the component has not rendered yet.  lastFetchRef is 0,  *)
(* so its age is saturated.                                                *)
(***************************************************************************)
NoStorm == [n |-> 0, age |-> 0, reads |-> 0]

NoFailure == [seen |-> FALSE, before |-> <<>>, after |-> <<>>, rejects |-> FALSE]

InitWith(rows) ==
    /\ mounted = "no"
    /\ queryId = Null
    /\ agentProgress = <<>>
    /\ channelRef = NoChannel
    /\ lastFetchAge = MinFetchInterval
    /\ channels = {}
    /\ intervals = {}
    /\ timeouts = <<>>
    /\ inflight = <<>>
    /\ store = rows
    /\ subsOpened = 0
    /\ effectLog = <<>>
    /\ writer = [sub |-> 0, live |-> TRUE, query |-> Null]
    /\ fresh = [has |-> FALSE, value |-> <<>>]
    /\ sinceStart = MinFetchInterval
    /\ sinceDone = MinFetchInterval
    /\ lastStart = [gapStart |-> MinFetchInterval, gapDone |-> MinFetchInterval,
                    dropped |-> FALSE]
    /\ failures = 0
    /\ pushes = 0
    /\ storm = NoStorm
    /\ stale = 0
    /\ failure = NoFailure
    /\ toasts = 0
    /\ transitions = 0
    /\ queryStatus = "waiting"
    /\ currentStep = "waiting"

\* No batch is under observation.
NoBatch ==
    /\ batch = <<>>
    /\ latest = <<>>
    /\ mapped = <<>>
    /\ aggregated = FALSE

\* The application before anyone signed in or typed anything.
NoId == 0

NoSession == [user |-> Null, access_token |-> Null]

\* ResultsDisplay has not rendered.
NoQuery == [id |-> NoId, status |-> Null]

\* ResearchForm.tsx lines 30-37, with defaultDepth = 'comprehensive'.
EmptyForm == [topic |-> <<>>, depth |-> "comprehensive"]

NoSubmit == [seen |-> FALSE, topic |-> <<>>, passed |-> FALSE, kept |-> TRUE]

NoUpdate == [seen |-> FALSE, password |-> "", sessionSet |-> FALSE, called |-> FALSE,
             error |-> FALSE, loading |-> FALSE]

\* NotFound.tsx lines 131-135, before the effect has run.
NoReset ==
    /\ password = ""
    /\ resetLoading = FALSE
    /\ sessionSet = FALSE
    /\ recovery = [listening |-> FALSE, seen |-> FALSE]
    /\ updates = <<>>
    /\ lastReset = NoUpdate

NoApp ==
    /\ session = NoSession
    /\ user = Null
    /\ research_queries = <<>>
    /\ queries = [loaded |-> FALSE, data |-> <<>>]
    /\ formData = EmptyForm
    /\ lastSubmit = NoSubmit
    /\ mutations = <<>>
    /\ posts = <<>>
    /\ selectedQueryId = NoId
    /\ selectTimers = <<>>
    /\ loading = TRUE
    /\ urlId = NoId
    /\ resultsQuery = NoQuery
    /\ resultFetches = <<>>
    /\ NoReset

Init == InitWith(SeedRows) /\ NoBatch /\ NoApp

\* The store when the pipeline has reported an error for the agent of "q1".
ErrorRows ==
    [k \in 1..Len(SeedRows) |->
        IF SeedRows[k].query_id = "q1" THEN [SeedRows[k] EXCEPT !.status = "error"]
        ELSE SeedRows[k]]

InitError == InitWith(ErrorRows) /\ NoBatch /\ NoApp

(***************************************************************************)
(* fetchProgress up to its await (lines 59-73).                            *)
(***************************************************************************)
\* A guard that never drops a request.
RateLimitedNever(age) == FALSE

\* line 62: now - lastFetchRef.current < 500
RateLimited(age) == age < MinFetchInterval

\* live: the subscription of the calling closure is still the active one.
Request(sub, q, origin, live) ==
    [sub |-> sub, query |-> q, origin |-> origin, live |-> live,
     overtaken |-> FALSE, resp |-> "pending", rows |-> <<>>, age |-> 0]

\* h names the history the specification records: "life" (effectLog, writer,
\* fresh), "rate" (sinceStart, sinceDone, lastStart), "storm" (storm) or
\* "lag" (stale), "fail" (failure) or "view" (toasts, transitions); "track"
\* is the hook inside a ProgressTracker.
fetchProgress(sub, q, origin, live, h) ==
    IF RateLimited(lastFetchAge)
    THEN /\ lastStart' = IF h = "rate" THEN [lastStart EXCEPT !.dropped = TRUE]
                         ELSE lastStart
         /\ UNCHANGED <<lastFetchAge, inflight, sinceStart>>
    ELSE /\ Len(inflight) < MaxInFlight
         /\ lastFetchAge' = 0
         /\ inflight' = Append(inflight, Request(sub, q, origin, live))
         /\ sinceStart' = IF h = "rate" THEN 0 ELSE sinceStart
         /\ lastStart' = IF h = "rate"
                         THEN [gapStart |-> sinceStart, gapDone |-> sinceDone,
                               dropped |-> FALSE]
                         ELSE lastStart

(***************************************************************************)
(* The effect (lines 40-171) and its cleanup (lines 162-170).              *)
(***************************************************************************)
\* lines 49-52: if (channelRef.current) supabase.removeChannel(...)
RemoveChannel(chs, ref) == IF ref # NoChannel THEN chs \ {ref} ELSE chs

\* A cleanup that forgets the channel it clears the reference of.
CleanupChannelsLeak(chs, ref) == chs

\* lines 163-167: the channels the cleanup leaves open
CleanupChannels(chs, ref) == IF ref # NoChannel THEN chs \ {ref} ELSE chs

\* A cleanup that does not clear its interval.
ClearIntervalLeak(ivs, sub) == ivs

\* line 169: clearInterval(intervalId)
ClearInterval(ivs, sub) == {i \in ivs : i.sub # sub}

\* The effect body, run on the channels, ref and intervals the cleanup left.
RunEffect(q, chs, ref, ivs, h) ==
    IF q = Null
    THEN /\ agentProgress' = <<>>
         /\ writer' = IF h = "life" THEN [sub |-> 0, live |-> TRUE, query |-> Null]
                      ELSE writer
         /\ channels' = chs
         /\ channelRef' = ref
         /\ intervals' = ivs
         /\ effectLog' = IF h = "life" THEN <<"clear">> ELSE effectLog
         /\ UNCHANGED <<lastFetchAge, inflight, subsOpened, sinceStart, lastStart>>
    ELSE LET sub == subsOpened + 1
             ch == [sub |-> sub, query |-> q]
         IN  /\ subsOpened < MaxSubs
             /\ subsOpened' = sub
             /\ fetchProgress(sub, q, "initial", TRUE, h)
             /\ channelRef' = ch
             /\ channels' = RemoveChannel(chs, ref) \cup {ch}
             /\ intervals' = ivs \cup {[sub |-> sub, query |-> q, due |-> PollInterval]}
             /\ effectLog' = IF h = "life"
                               THEN <<IF RateLimited(lastFetchAge) THEN "dropped"
                                      ELSE "fetch", "channel", "interval">>
                               ELSE effectLog
             /\ UNCHANGED <<agentProgress, writer>>

\* First render: the effect runs with the queryId the component was given.
Mount(q, h) ==
    /\ mounted = "no"
    /\ mounted' = "yes"
    /\ queryId' = q
    /\ RunEffect(q, channels, channelRef, intervals, h)
    /\ fresh' = [has |-> FALSE, value |-> <<>>]
    /\ currentStep' = IF h = "track" THEN queryStatus ELSE currentStep
    /\ UNCHANGED <<timeouts, store, sinceDone, failures, pushes, storm, stale, failure, batch,
                   latest, mapped, aggregated, toasts, transitions, queryStatus,
                   appVars>>

\* A render with another queryId: the cleanup of the previous effect run
\* (there is one only when that run subscribed), then the effect body.
SetQueryId(q, h) ==
    /\ mounted = "yes"
    /\ q # queryId
    /\ queryId' = q
    /\ IF queryId # Null
       THEN RunEffect(q, CleanupChannels(channels, channelRef), NoChannel,
                      ClearInterval(intervals, subsOpened), h)
       ELSE RunEffect(q, channels, channelRef, intervals, h)
    /\ fresh' = [has |-> FALSE, value |-> <<>>]
    /\ UNCHANGED <<mounted, timeouts, store, sinceDone, failures, pushes, storm, stale,
                   failure, batch, latest, mapped, aggregated, toasts, transitions,
                   queryStatus, currentStep, appVars>>

\* The owning view unmounts: only the cleanup runs.
Unmount ==
    /\ mounted = "yes"
    /\ mounted' = "gone"
    /\ IF queryId # Null
       THEN /\ channels' = CleanupChannels(channels, channelRef)
            /\ channelRef' = NoChannel
            /\ intervals' = ClearInterval(intervals, subsOpened)
       ELSE UNCHANGED <<channels, channelRef, intervals>>
    /\ UNCHANGED <<queryId, agentProgress, lastFetchAge, timeouts, inflight, store,
                   subsOpened, effectLog, writer, fresh, sinceStart, sinceDone,
                   lastStart, failures, pushes, storm, stale, failure, batch, latest,
                   mapped, aggregated, toasts, transitions, queryStatus, currentStep,
                   appVars>>

(***************************************************************************)
(* The change feed and the timers (lines 113-159).                         *)
(***************************************************************************)
Timeout(c, burst) ==
    [sub |-> c.sub, query |-> c.query, due |-> DebounceDelay, burst |-> burst]

\* A handler that fetches inline instead of scheduling.
PushHandlerInline(c, burst) ==
    /\ fetchProgress(c.sub, c.query, "push", TRUE, "life")
    /\ UNCHANGED <<timeouts, agentProgress>>

\* lines 124-130 and 142-147: either postgres_changes handler of a live
\* channel: setTimeout(() => fetchProgress(), 100).
PushHandler(c, burst) ==
    /\ timeouts' = Append(timeouts, Timeout(c, burst))
    /\ UNCHANGED <<agentProgress, lastFetchAge, inflight, sinceStart, lastStart>>

\* The feed delivers a notification, for a store change or spuriously.
Push(c) ==
    /\ pushes < MaxPushes
    /\ pushes' = pushes + 1
    /\ PushHandler(c, FALSE)
    /\ UNCHANGED <<mounted, queryId, channelRef, channels, intervals, store,
                   subsOpened, effectLog, writer, fresh, sinceDone, failures, storm,
                   stale, failure, batch, latest, mapped, aggregated, toasts,
                   transitions, queryStatus, currentStep, appVars>>

\* The 50 ms in which the notifications of a push storm arrive.
BurstWindow == DebounceDelay \div 2

\* One notification of a storm of BurstSize notifications within BurstWindow.
PushBurst(c) ==
    /\ storm.n < BurstSize
    /\ storm.n > 0 => storm.age <= BurstWindow
    /\ PushHandler(c, TRUE)
    /\ storm' = [storm EXCEPT !.n = @ + 1]
    /\ UNCHANGED <<mounted, queryId, channelRef, channels, intervals, store,
                   subsOpened, effectLog, writer, fresh, sinceDone, failures, pushes,
                   stale, failure, batch, latest, mapped, aggregated, toasts,
                   transitions, queryStatus, currentStep, appVars>>

\* The oldest pending timeout is due: line 128 / 145.
TimeoutFire(h) ==
    /\ timeouts # <<>>
    /\ Head(timeouts).due = 0
    /\ LET t == Head(timeouts)
       IN  /\ fetchProgress(t.sub, t.query, "push", t.sub = ActiveSub, h)
           /\ storm' = IF t.burst /\ ~RateLimited(lastFetchAge)
                       THEN [storm EXCEPT !.reads = @ + 1]
                       ELSE storm
    /\ timeouts' = Tail(timeouts)
    /\ UNCHANGED <<mounted, queryId, agentProgress, channelRef, channels, intervals,
                   store, subsOpened, effectLog, writer, fresh, sinceDone, failures, pushes,
                   stale, failure, batch, latest, mapped, aggregated, toasts,
                   transitions, queryStatus, currentStep, appVars>>

\* An interval whose callback does not fetch.
PollTickIdle(i, h) ==
    /\ i.due = 0
    /\ intervals' = (intervals \ {i}) \cup {[i EXCEPT !.due = PollInterval]}
    /\ UNCHANGED <<mounted, queryId, agentProgress, channelRef, lastFetchAge, channels,
                   timeouts, inflight, store, subsOpened, effectLog, writer, fresh,
                   sinceStart, sinceDone, lastStart, failures, pushes, storm, stale,
                   failure, batch, latest, mapped, aggregated, toasts, transitions,
                   queryStatus, currentStep, appVars>>

\* lines 157-159: the interval is due; it is rearmed for the next period.
PollTick(i, h) ==
    /\ i.due = 0
    /\ fetchProgress(i.sub, i.query, "poll", i.sub = ActiveSub, h)
    /\ intervals' = (intervals \ {i}) \cup {[i EXCEPT !.due = PollInterval]}
    /\ UNCHANGED <<mounted, queryId, agentProgress, channelRef, channels, timeouts,
                   store, subsOpened, effectLog, writer, fresh, sinceDone, failures, pushes,
                   storm, stale, failure, batch, latest, mapped, aggregated, toasts,
                   transitions, queryStatus, currentStep, appVars>>

\* The latest-per-agent projection of the store's rows of query q.
RowsOf(q, a) ==
    {store[k] : k \in {j \in 1..Len(store) :
                          store[j].query_id = q /\ store[j].agent_name = a}}

LatestOf(q, a) ==
    CHOOSE r \in RowsOf(q, a) : \A r2 \in RowsOf(q, a) : r2.updated_at <= r.updated_at

Projection(q) == {MapItem(LatestOf(q, a)) : a \in {b \in Agents : RowsOf(q, b) # {}}}

Shown == {agentProgress[k] : k \in 1..Len(agentProgress)}

Converged ==
    /\ Shown = Projection(queryId)
    /\ Len(agentProgress) = Cardinality(Shown)

\* What the request latency and a dropped poll add to the poll interval.
Epsilon == MinFetchInterval + MaxLatency * Quantum

\* stale is the time for which the visible state of the open subscription
\* has differed from the projection of the store since the store was last
\* written.  Its value after Quantum more milliseconds, saturated past
\* PollInterval + Epsilon.
Staler(age) ==
    IF ActiveSub # 0 /\ ~Converged
    THEN IF age > PollInterval + Epsilon THEN age ELSE age + Quantum
    ELSE 0

\* Quantum milliseconds pass.  No timer is due.
Older(age) == IF age + Quantum > MinFetchInterval THEN MinFetchInterval ELSE age + Quantum

Tick(h) ==
    /\ \A i \in intervals : i.due > 0
    /\ \A k \in 1..Len(timeouts) : timeouts[k].due > 0
    /\ \A k \in 1..Len(inflight) : inflight[k].age < MaxLatency * Quantum
    /\ inflight' = [k \in 1..Len(inflight) |-> [inflight[k] EXCEPT !.age = @ + Quantum]]
    /\ lastFetchAge' = Older(lastFetchAge)
    /\ sinceStart' = IF h = "rate" THEN Older(sinceStart) ELSE sinceStart
    /\ sinceDone' = IF h = "rate" THEN Older(sinceDone) ELSE sinceDone
    /\ intervals' = {[i EXCEPT !.due = @ - Quantum] : i \in intervals}
    /\ timeouts' = [k \in 1..Len(timeouts) |-> [timeouts[k] EXCEPT !.due = @ - Quantum]]
    /\ storm' = IF storm.n > 0 /\ storm.age <= BurstWindow
                THEN [storm EXCEPT !.age = @ + Quantum]
                ELSE storm
    /\ stale' = IF h = "lag" THEN Staler(stale) ELSE stale
    /\ UNCHANGED <<mounted, queryId, agentProgress, channelRef, channels, store,
                   subsOpened, effectLog, writer, fresh, lastStart, failures, pushes,
                   failure, batch, latest, mapped, aggregated, toasts, transitions,
                   queryStatus, currentStep, appVars>>

(***************************************************************************)
(* The store and the rest of fetchProgress (lines 69-103).                 *)
(***************************************************************************)
\* The pipeline appends a progress row; the store stamps it.
StoreWrite(q, a, u) ==
    /\ Len(store) < Len(SeedRows) + MaxWrites
    /\ store' = Append(store, [query_id |-> q, agent_name |-> a, status |-> u[1],
                               progress |-> u[2], updated_at |-> Len(store) + 1])
    /\ stale' = 0
    /\ UNCHANGED <<mounted, queryId, agentProgress, channelRef, lastFetchAge, channels,
                   intervals, timeouts, inflight, subsOpened, effectLog, writer, fresh,
                   sinceStart, sinceDone, lastStart, failures, pushes, storm, failure,
                   batch, latest, mapped, aggregated, toasts, transitions, queryStatus,
                   currentStep, appVars>>

\* The store answers request k with the rows of its query.
StoreRespond(k) ==
    /\ inflight[k].resp = "pending"
    /\ inflight' = [inflight EXCEPT ![k].resp = "data",
                                    ![k].rows = FetchRows(inflight[k].query)]
    /\ UNCHANGED <<mounted, queryId, agentProgress, channelRef, lastFetchAge, channels,
                   intervals, timeouts, store, subsOpened, effectLog, writer, fresh,
                   sinceStart, sinceDone, lastStart, failures, pushes, storm, stale,
                   failure, batch, latest, mapped, aggregated, toasts, transitions,
                   queryStatus, currentStep, appVars>>

\* Request k fails: the store answers with an error result ("error", line 75)
\* or the call throws ("rejected", line 100).
Failures == {"error", "rejected"}

StoreFail(k, kind) ==
    /\ inflight[k].resp = "pending"
    /\ failures < MaxFailures
    /\ failures' = failures + 1
    /\ inflight' = [inflight EXCEPT ![k].resp = kind]
    /\ UNCHANGED <<mounted, queryId, agentProgress, channelRef, lastFetchAge, channels,
                   intervals, timeouts, store, subsOpened, effectLog, writer, fresh,
                   sinceStart, sinceDone, lastStart, pushes, storm, stale, failure,
                   batch, latest, mapped, aggregated, toasts, transitions, queryStatus,
                   currentStep, appVars>>

\* Requests started before request k by the same closure are overtaken.
Overtake(reqs, k) ==
    [j \in 1..Len(reqs) |->
        IF j < k /\ reqs[j].sub = reqs[k].sub
        THEN [reqs[j] EXCEPT !.overtaken = TRUE]
        ELSE reqs[j]]

\* A continuation that clears the visible state on an error result and
\* does not catch what the call throws.
ContinuationUncaught(f, shown) ==
    CASE f.resp = "error" -> [shown |-> <<>>, rejects |-> FALSE]
      [] f.resp = "rejected" -> [shown |-> shown, rejects |-> TRUE]
      [] OTHER -> [shown |-> mappedProgress(f.rows), rejects |-> FALSE]

\* lines 75-103: what the continuation of request f leaves in agentProgress,
\* and whether the promise of fetchProgress rejects.  An error result is
\* logged and returns (lines 75-78); the catch logs what was thrown (lines
\* 100-103).
Continuation(f, shown) ==
    CASE f.resp = "error" -> [shown |-> shown, rejects |-> FALSE]
      [] f.resp = "rejected" -> [shown |-> shown, rejects |-> FALSE]
      [] OTHER -> [shown |-> mappedProgress(f.rows), rejects |-> FALSE]

Counted(n) == IF n < MaxToasts THEN n + 1 ELSE n

\* Dashboard.tsx lines 106-115: the effect on [agentProgress, toast], run
\* after a render with a new agentProgress array; n toasts were fired before.
AgentErrorEffect(shown, n) ==
    IF \E i \in 1..Len(shown) : shown[i].status = "error" THEN Counted(n) ELSE n

\* The continuation of request k after the await (lines 75-103).  React
\* drops the state update of a component that has unmounted.
Resolve(k, h) ==
    LET f == inflight[k]
        applies == f.resp = "data" /\ mounted = "yes"
        life == applies /\ h = "life"
        out == Continuation(f, agentProgress)
    IN  /\ f.resp # "pending"
        /\ agentProgress' = IF mounted = "yes" THEN out.shown ELSE agentProgress
        /\ writer' = IF life THEN [sub |-> f.sub, live |-> f.sub = ActiveSub,
                                   query |-> f.query]
                     ELSE writer
        /\ fresh' = IF life /\ f.sub = ActiveSub /\ ~f.overtaken
                    THEN [has |-> TRUE, value |-> mappedProgress(f.rows)]
                    ELSE fresh
        /\ inflight' = RemoveAt(IF f.resp = "data" THEN Overtake(inflight, k)
                                ELSE inflight, k)
        /\ sinceDone' = IF h = "rate" THEN 0 ELSE sinceDone
        /\ toasts' = IF h = "view" /\ applies
                     THEN AgentErrorEffect(agentProgress', toasts)
                     ELSE toasts
        /\ transitions' = IF h = "view" /\ agentProgress' # agentProgress
                          THEN Counted(transitions)
                          ELSE transitions
        /\ failure' = IF h = "fail" /\ f.resp \in Failures
                      THEN [seen |-> TRUE, before |-> agentProgress,
                            after |-> agentProgress', rejects |-> out.rejects]
                      ELSE failure
        /\ UNCHANGED <<mounted, queryId, channelRef, lastFetchAge, channels, intervals,
                       timeouts, store, subsOpened, effectLog, sinceStart, lastStart,
                       failures, pushes, storm, batch, latest, mapped, aggregated,
                       queryStatus, currentStep, appVars>>
        /\ stale' = IF h = "lag" /\ Converged' THEN 0 ELSE stale

(***************************************************************************)
(* The hook through its life: renders with changing queryId, the feed and  *)
(* the timers, over a store that does not change.                          *)
(***************************************************************************)
Next ==
    \/ \E q \in QueryIds \cup {Null} : Mount(q, "life")
    \/ \E q \in QueryIds \cup {Null} : SetQueryId(q, "life")
    \/ Unmount
    \/ \E c \in channels : Push(c)
    \/ TimeoutFire("life")
    \/ \E i \in intervals : PollTick(i, "life")
    \/ Tick("life")
    \/ \E k \in 1..Len(inflight) : StoreRespond(k)
    \/ \E k \in 1..Len(inflight) : Resolve(k, "life")

Spec == Init /\ [][Next]_vars

(***************************************************************************)
(* One subscription over a store the pipeline writes to.                   *)
(***************************************************************************)
NextStale ==
    \/ Mount("q1", "life")
    \/ \E c \in channels : Push(c)
    \/ TimeoutFire("life")
    \/ \E i \in intervals : PollTick(i, "life")
    \/ Tick("life")
    \/ \E a \in Agents, u \in Updates : StoreWrite("q1", a, u)
    \/ \E k \in 1..Len(inflight) : StoreRespond(k)
    \/ \E k \in 1..Len(inflight) : Resolve(k, "life")

SpecStale == Init /\ [][NextStale]_vars

(***************************************************************************)
(* One subscription, observed for the spacing of its store reads.          *)
(***************************************************************************)
NextRate ==
    \/ Mount("q1", "rate")
    \/ \E c \in channels : Push(c)
    \/ TimeoutFire("rate")
    \/ \E i \in intervals : PollTick(i, "rate")
    \/ Tick("rate")
    \/ \E k \in 1..Len(inflight) : StoreRespond(k)
    \/ \E k \in 1..Len(inflight) : Resolve(k, "rate")

SpecRate == Init /\ [][NextRate]_vars

(***************************************************************************)
(* One subscription under a storm of BurstSize notifications.              *)
(***************************************************************************)
NextStorm ==
    \/ Mount("q1", "storm")
    \/ \E c \in channels : PushBurst(c)
    \/ TimeoutFire("storm")
    \/ \E i \in intervals : PollTick(i, "storm")
    \/ Tick("storm")
    \/ \E k \in 1..Len(inflight) : StoreRespond(k)
    \/ \E k \in 1..Len(inflight) : Resolve(k, "storm")

SpecStorm == Init /\ [][NextStorm]_vars

(***************************************************************************)
(* One subscription whose feed drops every notification: only the          *)
(* interval fetches.  The pipeline writes at most MaxWrites rows and the   *)
(* store fails at most MaxFailures requests.  Time passes, due timers      *)
(* fire, the store answers and continuations run.                          *)
(***************************************************************************)
NextPoll ==
    \/ Mount("q1", "poll")
    \/ \E i \in intervals : PollTick(i, "poll")
    \/ Tick("poll")
    \/ \E a \in Agents, u \in Updates : StoreWrite("q1", a, u)
    \/ \E k \in 1..Len(inflight) : StoreRespond(k)
    \/ \E k \in 1..Len(inflight) : StoreFail(k, "error")
    \/ \E k \in 1..Len(inflight) : Resolve(k, "poll")

SpecPoll ==
    /\ Init
    /\ [][NextPoll]_vars
    /\ WF_vars(Mount("q1", "poll"))
    /\ WF_vars(Tick("poll"))
    /\ WF_vars(\E i \in intervals : PollTick(i, "poll"))
    /\ WF_vars(\E k \in 1..Len(inflight) : StoreRespond(k))
    /\ WF_vars(\E k \in 1..Len(inflight) : Resolve(k, "poll"))

(***************************************************************************)
(* One subscription over a store the pipeline writes to, every request     *)
(* answered; the lag of the visible state behind the store is measured.    *)
(***************************************************************************)
NextLag ==
    \/ Mount("q1", "lag")
    \/ \E c \in channels : Push(c)
    \/ TimeoutFire("lag")
    \/ \E i \in intervals : PollTick(i, "lag")
    \/ Tick("lag")
    \/ \E a \in Agents, u \in Updates : StoreWrite("q1", a, u)
    \/ \E k \in 1..Len(inflight) : StoreRespond(k)
    \/ \E k \in 1..Len(inflight) : Resolve(k, "lag")

SpecLag == Init /\ [][NextLag]_vars

(***************************************************************************)
(* One subscription whose store requests may fail, over a store the        *)
(* pipeline writes to.                                                     *)
(***************************************************************************)
NextFail ==
    \/ Mount("q1", "fail")
    \/ \E c \in channels : Push(c)
    \/ TimeoutFire("fail")
    \/ \E i \in intervals : PollTick(i, "fail")
    \/ Tick("fail")
    \/ \E a \in Agents, u \in Updates : StoreWrite("q1", a, u)
    \/ \E k \in 1..Len(inflight) : StoreRespond(k)
    \/ \E k \in 1..Len(inflight), kind \in Failures : StoreFail(k, kind)
    \/ \E k \in 1..Len(inflight) : Resolve(k, "fail")

SpecFail == Init /\ [][NextFail]_vars

(***************************************************************************)
(* One subscription to a query whose agent the pipeline has reported to    *)
(* have failed.  The feed drops every notification.  Once the error is     *)
(* shown, the pipeline writes further rows.                                *)
(***************************************************************************)
ErrorSurfaced == \E i \in 1..Len(agentProgress) : agentProgress[i].status = "error"

NextError ==
    \/ Mount("q1", "poll")
    \/ \E i \in intervals : PollTick(i, "poll")
    \/ Tick("poll")
    \/ \E a \in Agents, u \in Updates : ErrorSurfaced /\ StoreWrite("q1", a, u)
    \/ \E k \in 1..Len(inflight) : StoreRespond(k)
    \/ \E k \in 1..Len(inflight) : StoreFail(k, "error")
    \/ \E k \in 1..Len(inflight) : Resolve(k, "poll")

SpecError ==
    /\ InitError
    /\ [][NextError]_vars
    /\ WF_vars(Mount("q1", "poll"))
    /\ WF_vars(Tick("poll"))
    /\ WF_vars(\E i \in intervals : PollTick(i, "poll"))
    /\ WF_vars(\E k \in 1..Len(inflight) : StoreRespond(k))
    /\ WF_vars(\E k \in 1..Len(inflight) : Resolve(k, "poll"))

(***************************************************************************)
(* The aggregator alone (lines 80-98), applied to any batch of rows of one *)
(* query: rows with and without a timestamp, with equal timestamps, in     *)
(* any order, with statuses the views know and statuses they do not, and   *)
(* agents whose names are array indices.                                   *)
(***************************************************************************)
hookVars == <<mounted, queryId, agentProgress, channelRef, lastFetchAge, channels,
              intervals, timeouts, inflight, store, subsOpened, effectLog, writer,
              fresh, sinceStart, sinceDone, lastStart, failures, pushes, storm,
              stale, failure>>

\* The variables of the views that use the hook.
viewVars == <<toasts, transitions, queryStatus, currentStep>>

BatchAgents == Agents \cup IndexNames

BatchStatuses == {Null, "", "active", "paused"}

BatchRows ==
    [query_id : {"q1"}, agent_name : BatchAgents, status : BatchStatuses,
     progress : {40}, updated_at : 0..MaxStamp]

Batches == UNION {[1..n -> BatchRows] : n \in 0..MaxBatch}

InitBatch ==
    /\ InitWith(SeedRows)
    /\ batch \in Batches
    /\ latest = <<>>
    /\ mapped = <<>>
    /\ aggregated = FALSE
    /\ NoApp

\* lines 80-96 on the batch.
Aggregate ==
    /\ ~aggregated
    /\ latest' = latestProgressByAgent(batch)
    /\ mapped' = mappedProgress(batch)
    /\ aggregated' = TRUE
    /\ UNCHANGED <<batch, hookVars, viewVars, appVars>>

NextBatch == Aggregate

SpecBatch == InitBatch /\ [][NextBatch]_vars

(***************************************************************************)
(* The hook as the Dashboard uses it (Dashboard.tsx lines 105-115): every  *)
(* successful fetch stores a new array (line 98), the Dashboard renders    *)
(* again and its effect on agentProgress runs.                             *)
(***************************************************************************)
NextDashboard ==
    \/ Mount("q1", "view")
    \/ \E i \in intervals : PollTick(i, "view")
    \/ Tick("view")
    \/ \E a \in Agents, u \in Updates : StoreWrite("q1", a, u)
    \/ \E k \in 1..Len(inflight) : StoreRespond(k)
    \/ \E k \in 1..Len(inflight) : Resolve(k, "view")

SpecDashboard == Init /\ [][NextDashboard]_vars

(***************************************************************************)
(* The hook inside a ProgressTracker (src/unnamed/part_001): the page      *)
(* passes the query, whose status the pipeline advances; the tracker       *)
(* renders one of three cards from agentProgress and currentStep.          *)
(***************************************************************************)
\* part_001 line 75.
TrackerStates ==
    <<"waiting", "initializing", "researching", "analyzing", "fact_checking",
      "completed">>

QueryStatuses == {TrackerStates[k] : k \in 1..Len(TrackerStates)} \cup {Null}

\* A render with another query.status, and the effect of lines 37-42.
SetStatus(s) ==
    /\ mounted = "yes"
    /\ s # queryStatus
    /\ queryStatus' = s
    /\ currentStep' = IF s # Null /\ s # currentStep THEN s ELSE currentStep
    /\ UNCHANGED <<hookVars, toasts, transitions, batch, latest, mapped, aggregated, appVars>>

\* A tracker that looks at the step before it looks for an error.
CardStepFirst(shown, step) ==
    IF step = "completed" THEN "completion card"
    ELSE IF \E i \in 1..Len(shown) : shown[i].status = "error" THEN "error panel"
    ELSE "step indicator"

\* What ProgressTracker returns: the error card (lines 45-66), the
\* completion card (lines 147-172) or the step indicator (lines 175-289).
Card(shown, step) ==
    IF \E i \in 1..Len(shown) : shown[i].status = "error" THEN "error panel"
    ELSE IF step = "completed" THEN "completion card"
    ELSE "step indicator"

NextTracker ==
    \/ Mount("q1", "track")
    \/ \E s \in QueryStatuses : SetStatus(s)
    \/ \E i \in intervals : PollTick(i, "track")
    \/ Tick("track")
    \/ \E a \in Agents, u \in Updates : StoreWrite("q1", a, u)
    \/ \E k \in 1..Len(inflight) : StoreRespond(k)
    \/ \E k \in 1..Len(inflight) : Resolve(k, "track")

SpecTracker == Init /\ [][NextTracker]_vars

(***************************************************************************)
(* The step indicator of ProgressTracker (src/unnamed/part_001 lines       *)
(* 74-82, 112-133, 140-144), for every status a query can carry.           *)
(***************************************************************************)
\* Workflow states of ResearchState (src/unnamed/part_005 lines 73-82)
\* that the tracker's list of states does not hold.
UnknownStates == {"web-research", "revision"}

StepStatuses == QueryStatuses \cup UnknownStates

\* part_001 lines 112-133: the key of each displayed step.
steps == <<"initializing", "researching", "analyzing", "fact_checking">>

\* A search that answers the length of the list for a missing element.
indexOfOrLength(list, x) ==
    IF \E k \in 1..Len(list) : list[k] = x
    THEN (CHOOSE k \in 1..Len(list) :
              list[k] = x /\ \A j \in 1..(k - 1) : list[j] # x) - 1
    ELSE Len(list)

\* Array.prototype.indexOf: the 0-based position of the first element
\* equal to x, and -1 when there is none.
indexOf(list, x) ==
    IF \E k \in 1..Len(list) : list[k] = x
    THEN (CHOOSE k \in 1..Len(list) :
              list[k] = x /\ \A j \in 1..(k - 1) : list[j] # x) - 1
    ELSE 0 - 1

\* part_001 lines 74-82.
getStepStatus(step, current) ==
    LET currentIndex == indexOf(TrackerStates, current)
        stepIndex == indexOf(TrackerStates, step)
    IN  IF stepIndex < currentIndex THEN "completed"
        ELSE IF stepIndex = currentIndex THEN "active"
        ELSE "waiting"

Max(a, b) == IF a > b THEN a ELSE b

Min(a, b) == IF a < b THEN a ELSE b

\* A percentage without the lower clamp.
getOverallProgressUnclamped(current) ==
    LET currentIndex == indexOf(TrackerStates, current)
    IN  Min(100, (currentIndex * 100) \div (Len(TrackerStates) - 1))

\* part_001 lines 140-144.  The quotient currentIndex / 5 times 100 is a
\* whole number in double arithmetic for every index from -1 to 5
\* (-20, 0, 20, 40, 60, 80, 100), so the integer quotient is the value.
getOverallProgress(current) ==
    LET currentIndex == indexOf(TrackerStates, current)
    IN  Max(0, Min(100, (currentIndex * 100) \div (Len(TrackerStates) - 1)))

NextSteps ==
    \/ Mount("q1", "track")
    \/ \E s \in StepStatuses : SetStatus(s)
    \/ \E i \in intervals : PollTick(i, "track")
    \/ Tick("track")
    \/ \E a \in Agents, u \in Updates : StoreWrite("q1", a, u)
    \/ \E k \in 1..Len(inflight) : StoreRespond(k)
    \/ \E k \in 1..Len(inflight) : Resolve(k, "track")

SpecSteps == Init /\ [][NextSteps]_vars

(***************************************************************************)
(* Query creation (src/unnamed/part_003 lines 165-234) as the Dashboard    *)
(* drives it from the research form: ResearchForm.handleSubmit calls       *)
(* Dashboard.handleQuerySubmit, which calls createQuery and arms a 1000 ms *)
(* timer; the mutation inserts the row and, on success, starts the         *)
(* research workflow with a POST to the backend.                           *)
(***************************************************************************)
batchVars == <<batch, latest, mapped, aggregated>>

\* The hook, its views and the aggregator, which the application's own
\* steps leave alone.
progressVars == <<hookVars, viewVars, batchVars>>

Tokens == {"t1", "t2"}

\* The sessions of the one user of the model, and no session.
Sessions == [user : {"u1"}, access_token : Tokens] \cup {NoSession}

\* The characters of a topic: white space and one letter.
WhiteSpace == {" "}

Chars == WhiteSpace \cup {"a"}

Topics == UNION {[1..n -> Chars] : n \in 0..MaxTopic}

\* The depths the user picks from (the keys of depthLabelMap).
Depths == {"comprehensive", "expert"}

\* ResearchForm.tsx lines 45-49.
depthLabelMap ==
    [basic |-> "Basic Overview", comprehensive |-> "Comprehensive Analysis",
     expert |-> "Expert-Level Deep Dive"]

\* String.prototype.trim on a topic.
RECURSIVE TrimStart(_)
TrimStart(t) == IF t # <<>> /\ Head(t) \in WhiteSpace THEN TrimStart(Tail(t)) ELSE t

RECURSIVE TrimEnd(_)
TrimEnd(t) ==
    IF t # <<>> /\ t[Len(t)] \in WhiteSpace THEN TrimEnd(SubSeq(t, 1, Len(t) - 1)) ELSE t

Trim(t) == TrimEnd(TrimStart(t))

\* A validation that only rejects the empty topic.
BlankOnlyEmpty(t) == t = <<>>

\* ResearchForm.tsx line 60: !formData.topic.trim()
Blank(t) == Trim(t) = <<>>

\* A query the user created before the behaviour starts.
EarlierRow ==
    [id |-> 1, user_id |-> "u1", topic |-> <<"a">>, depth |-> "Basic Overview",
     status |-> "completed"]

InitCreate ==
    /\ InitWith(SeedRows)
    /\ NoBatch
    /\ session = NoSession
    /\ user = Null
    /\ research_queries \in {<<>>, <<EarlierRow>>}
    /\ queries = [loaded |-> FALSE, data |-> <<>>]
    /\ formData = EmptyForm
    /\ lastSubmit = NoSubmit
    /\ mutations = <<>>
    /\ posts = <<>>
    /\ selectedQueryId = NoId
    /\ selectTimers = <<>>
    /\ loading = TRUE
    /\ urlId = NoId
    /\ resultsQuery = NoQuery
    /\ resultFetches = <<>>
    /\ NoReset

\* The client's session changes: sign-in, sign-out, expiry, token refresh.
SetSession(s) ==
    /\ s # session
    /\ session' = s
    /\ UNCHANGED <<user, research_queries, queries, formData, lastSubmit, mutations,
                   posts, selectedQueryId, selectTimers, loading, urlId,
                   resultsQuery, resultFetches, resetVars, progressVars>>

\* part_007 lines 48-54: the auth listener stores the user of the session.
\* The queries list is keyed by the user (part_003 line 20): another user
\* starts without data.
AuthStateChange ==
    /\ user # session.user \/ loading
    /\ user' = session.user
    /\ loading' = FALSE
    /\ queries' = IF user' # user THEN [loaded |-> FALSE, data |-> <<>>] ELSE queries
    /\ UNCHANGED <<session, research_queries, formData, lastSubmit, mutations, posts,
                   selectedQueryId, selectTimers, urlId, resultsQuery,
                   resultFetches, resetVars, progressVars>>

RECURSIVE Reverse(_)
Reverse(rows) == IF rows = <<>> THEN <<>> ELSE Append(Reverse(Tail(rows)), Head(rows))

\* part_003 lines 23-27: the user's queries, newest first.
QueriesOf(u) == Reverse(SelectSeq(research_queries, LAMBDA r : r.user_id = u))

\* part_003 lines 19-34: the queries list is (re)fetched; enabled: !!user.
QueriesFetch ==
    /\ user # Null
    /\ queries' = [loaded |-> TRUE, data |-> QueriesOf(user)]
    /\ queries' # queries
    /\ UNCHANGED <<session, user, research_queries, formData, lastSubmit, mutations,
                   posts, selectedQueryId, selectTimers, loading, urlId,
                   resultsQuery, resultFetches, resetVars, progressVars>>

\* The user edits the form.
EditForm(t, d) ==
    /\ formData' = [topic |-> t, depth |-> d]
    /\ formData' # formData
    /\ UNCHANGED <<session, user, research_queries, queries, lastSubmit, mutations,
                   posts, selectedQueryId, selectTimers, loading, urlId,
                   resultsQuery, resultFetches, resetVars, progressVars>>

\* The value of selectedQueryId a creation has not been given yet.
Pending == 0 - 1

\* createQuery(query), part_003 lines 166-167: the mutation function throws
\* before it inserts when there is no user, and onError (lines 191-193)
\* shows the message.  data is the id of the row the insert returned,
\* selected what the 1000 ms callback left in selectedQueryId, toasts the
\* toast.success and toast.error calls made on behalf of the creation.
createQuery(query) ==
    [query |-> query, user_id |-> user, data |-> NoId, selected |-> Pending,
     pc |-> IF user = Null THEN "done" ELSE "insert",
     toasts |-> IF user = Null THEN <<"error">> ELSE <<>>]

\* Dashboard.tsx lines 59-73 for the mutation at index m: the callback
\* keeps the queries of the render that created it.
handleQuerySubmit(m) == [m |-> m, queries |-> queries]

\* ResearchForm.tsx lines 57-76, with onSubmit = handleQuerySubmit.
handleSubmit ==
    LET query == [formData EXCEPT !.depth = depthLabelMap[formData.depth]]
        m == Len(mutations) + 1
    IN  IF Blank(formData.topic)
        THEN /\ UNCHANGED <<formData, mutations, selectTimers>>
             /\ lastSubmit' = [seen |-> TRUE, topic |-> formData.topic,
                               passed |-> FALSE, kept |-> formData' = formData]
        ELSE /\ m <= MaxCreations
             /\ mutations' = Append(mutations, createQuery(query))
             /\ selectTimers' = Append(selectTimers, handleQuerySubmit(m))
             /\ formData' = EmptyForm
             /\ lastSubmit' = [seen |-> TRUE, topic |-> formData.topic,
                               passed |-> TRUE, kept |-> formData' = formData]

SubmitForm ==
    /\ handleSubmit
    /\ UNCHANGED <<session, user, research_queries, queries, posts, selectedQueryId,
                   loading, urlId, resultsQuery, resultFetches,
                   resetVars, progressVars>>

\* An insert that takes the status from nowhere.
InsertedRowBare(id, mu) ==
    [id |-> id, user_id |-> mu.user_id, topic |-> mu.query.topic,
     depth |-> mu.query.depth, status |-> Null]

\* part_003 lines 170-179: the row the mutation inserts.
InsertedRow(id, mu) ==
    [id |-> id, user_id |-> mu.user_id, topic |-> mu.query.topic,
     depth |-> mu.query.depth, status |-> "initializing"]

\* The store answers the insert of mutation m.  On success onSuccess
\* (lines 185-190) shows the toast and calls startPythonResearchWorkflow,
\* which runs to its getSession (line 200); on an error onError (lines
\* 191-193) shows it.
InsertRespond(m, ok) ==
    LET mu == mutations[m]
        id == Len(research_queries) + 1
    IN  /\ mu.pc = "insert"
        /\ IF ok
           THEN /\ research_queries' = Append(research_queries, InsertedRow(id, mu))
                /\ mutations' = [mutations EXCEPT ![m].data = id, ![m].pc = "session",
                                     ![m].toasts = Append(@, "success")]
           ELSE /\ mutations' = [mutations EXCEPT ![m].pc = "done",
                                     ![m].toasts = Append(@, "error")]
                /\ UNCHANGED research_queries
        /\ UNCHANGED <<session, user, queries, formData, lastSubmit, posts,
                       selectedQueryId, selectTimers, loading, urlId,
                       resultsQuery, resultFetches, resetVars, progressVars>>

\* A workflow start that posts whether or not there is a token.
TokenMissingNever(s) == FALSE

\* part_003 line 201: !session?.access_token
TokenMissing(s) == s.access_token = Null

\* getSession resolves (lines 200-212): without a token the function throws
\* into its catch (lines 231-233), with one it sends the POST.
SessionResolve(m) ==
    LET mu == mutations[m]
    IN  /\ mu.pc = "session"
        /\ IF TokenMissing(session)
           THEN /\ mutations' = [mutations EXCEPT ![m].pc = "done",
                                     ![m].toasts = Append(@, "error")]
                /\ UNCHANGED posts
           ELSE /\ posts' = Append(posts, [queryId |-> mu.data,
                                           bearer |-> session.access_token])
                /\ mutations' = [mutations EXCEPT ![m].pc = "post"]
        /\ UNCHANGED <<session, user, research_queries, queries, formData, lastSubmit,
                       selectedQueryId, selectTimers, loading, urlId,
                       resultsQuery, resultFetches, resetVars, progressVars>>

\* What comes back from the backend: a success, a structured error, a body
\* that is not JSON, or no response at all.
PostOutcomes == {"ok", "refused", "unparsable", "rejected"}

\* lines 213-233: the toast the answer r leads to.
PostToast(r) == IF r = "ok" THEN "success" ELSE "error"

PostRespond(m, r) ==
    /\ mutations[m].pc = "post"
    /\ mutations' = [mutations EXCEPT ![m].pc = "done",
                         ![m].toasts = Append(@, PostToast(r))]
    /\ UNCHANGED <<session, user, research_queries, queries, formData, lastSubmit,
                   posts, selectedQueryId, selectTimers, loading, urlId,
                   resultsQuery, resultFetches, resetVars, progressVars>>

\* Dashboard.tsx lines 67-72: the oldest pending callback runs.
SelectTimerFire ==
    LET t == Head(selectTimers)
    IN  /\ selectTimers # <<>>
        /\ selectedQueryId' = IF t.queries.loaded /\ Len(t.queries.data) > 0
                              THEN t.queries.data[1].id
                              ELSE selectedQueryId
        /\ mutations' = [mutations EXCEPT ![t.m].selected = selectedQueryId']
        /\ selectTimers' = Tail(selectTimers)
        /\ UNCHANGED <<session, user, research_queries, queries, formData, lastSubmit,
                       posts, loading, urlId, resultsQuery,
                       resultFetches, resetVars, progressVars>>

\* Creation from the form to the end of the workflow start.
NextCreate ==
    \/ \E s \in Sessions : SetSession(s)
    \/ AuthStateChange
    \/ \E t \in Topics, d \in Depths : EditForm(t, d)
    \/ SubmitForm
    \/ \E m \in 1..Len(mutations), ok \in BOOLEAN : InsertRespond(m, ok)
    \/ \E m \in 1..Len(mutations) : SessionResolve(m)
    \/ \E m \in 1..Len(mutations), r \in PostOutcomes : PostRespond(m, r)

SpecCreate == InitCreate /\ [][NextCreate]_vars

\* The Dashboard of a signed-in user: the queries list is fetched and
\* refetched, queries are created, and the 1000 ms callbacks run.
InitSelect ==
    /\ InitWith(SeedRows)
    /\ NoBatch
    /\ session \in Sessions \ {NoSession}
    /\ user = session.user
    /\ research_queries \in {<<>>, <<EarlierRow>>}
    /\ queries = [loaded |-> FALSE, data |-> <<>>]
    /\ formData = EmptyForm
    /\ lastSubmit = NoSubmit
    /\ mutations = <<>>
    /\ posts = <<>>
    /\ selectedQueryId = NoId
    /\ selectTimers = <<>>
    /\ loading = FALSE
    /\ urlId = NoId
    /\ resultsQuery = NoQuery
    /\ resultFetches = <<>>
    /\ NoReset

NextSelect ==
    \/ QueriesFetch
    \/ \E t \in Topics, d \in Depths : EditForm(t, d)
    \/ SubmitForm
    \/ \E m \in 1..Len(mutations), ok \in BOOLEAN : InsertRespond(m, ok)
    \/ SelectTimerFire

SpecSelect == InitSelect /\ [][NextSelect]_vars

(***************************************************************************)
(* The Progress and Results pages (src/src/pages/NotFound.tsx lines        *)
(* 59-112, src/unnamed/part_005 lines 10-57): what each one renders from   *)
(* the auth state, the queries list and the id of its URL, while the user  *)
(* signs in and out, the list is fetched, and queries are created by       *)
(* another client of the same user.                                        *)
(***************************************************************************)
InitPages ==
    /\ InitWith(SeedRows)
    /\ NoBatch
    /\ session \in Sessions
    /\ user = Null
    /\ research_queries \in {<<>>, <<EarlierRow>>}
    /\ queries = [loaded |-> FALSE, data |-> <<>>]
    /\ formData = EmptyForm
    /\ lastSubmit = NoSubmit
    /\ mutations = <<>>
    /\ posts = <<>>
    /\ selectedQueryId = NoId
    /\ selectTimers = <<>>
    /\ loading = TRUE
    /\ urlId = NoId
    /\ resultsQuery = NoQuery
    /\ resultFetches = <<>>
    /\ NoReset

\* The ids a URL can name: none, and those of the rows there can be.
UrlIds == 0..(MaxCreations + 1)

\* The page is opened with, or the location changes to, ?id=...
Navigate(id) ==
    /\ id # urlId
    /\ urlId' = id
    /\ UNCHANGED <<session, user, research_queries, queries, formData, lastSubmit,
                   mutations, posts, selectedQueryId, selectTimers, loading,
                   resultsQuery, resultFetches, resetVars, progressVars>>

\* Another client of user u creates a query (part_003 lines 168-181 there).
RemoteCreate(u) ==
    LET id == Len(research_queries) + 1
    IN  /\ id <= MaxCreations + 1
        /\ research_queries' =
              Append(research_queries,
                     [id |-> id, user_id |-> u, topic |-> <<"a">>,
                      depth |-> "Basic Overview", status |-> "initializing"])
        /\ UNCHANGED <<session, user, queries, formData, lastSubmit, mutations, posts,
                       selectedQueryId, selectTimers, loading, urlId,
                       resultsQuery, resultFetches, resetVars, progressVars>>

\* queries?.find((q) => q.id === queryId) finds a query.
Found == \E k \in 1..Len(queries.data) : queries.data[k].id = urlId

\* NotFound.tsx lines 73-111.
ProgressPage ==
    IF loading \/ user = Null \/ ~queries.loaded THEN "nothing"
    ELSE IF ~Found THEN "not found"
    ELSE "tracker"

\* part_005 lines 28-56.
ResultsPage ==
    IF loading \/ user = Null \/ ~queries.loaded THEN "nothing"
    ELSE IF ~Found THEN "not found"
    ELSE "results"

NextPages ==
    \/ \E s \in Sessions : SetSession(s)
    \/ AuthStateChange
    \/ QueriesFetch
    \/ \E id \in UrlIds : Navigate(id)
    \/ RemoteCreate("u1")

SpecPages == InitPages /\ [][NextPages]_vars

(***************************************************************************)
(* ResultsDisplay (src/src/components/ResultsDisplay.tsx lines 18-35): the *)
(* component renders with a query prop and its useQuery fetches the        *)
(* query's result when it is enabled: on a render that enables it, and     *)
(* again when the window regains focus.                                    *)
(***************************************************************************)
\* The queries the component is rendered with: with and without an id,
\* in every status of the workflow.
ResultQueries == [id : UrlIds, status : QueryStatuses] \ {NoQuery}

\* A useQuery that only asks for an id.
EnabledWithId(query) == query.id # NoId

\* line 34: enabled: !!query.id && query.status === 'completed'
Enabled(query) == query.id # NoId /\ query.status = "completed"

\* lines 22-35: what the observer adds to the fetches issued so far.
Observe(query, fetches) ==
    IF Enabled(query) THEN Append(fetches, query) ELSE fetches

\* A render with another query prop.
RenderResults(query) ==
    /\ query # resultsQuery
    /\ Len(resultFetches) < MaxResultFetches
    /\ resultsQuery' = query
    /\ resultFetches' = Observe(query, resultFetches)
    /\ UNCHANGED <<appOther, resetVars, progressVars>>

\* The window regains focus (refetchOnWindowFocus).
RefocusResults ==
    /\ resultsQuery # NoQuery
    /\ Len(resultFetches) < MaxResultFetches
    /\ resultFetches' = Observe(resultsQuery, resultFetches)
    /\ resultFetches' # resultFetches
    /\ UNCHANGED <<resultsQuery, appOther, resetVars, progressVars>>

NextResults ==
    \/ \E query \in ResultQueries : RenderResults(query)
    \/ RefocusResults

SpecResults == Init /\ [][NextResults]_vars

(***************************************************************************)
(* The ResetPassword page (src/src/pages/NotFound.tsx lines 129-243): the  *)
(* effect on the location, the recovery event, and the form's handler.     *)
(***************************************************************************)
Passwords == {"", " ", "secret"}

\* lines 145-172: the effect runs (first render, or the location changed)
\* after the cleanup of its previous run.  With an error_code in the hash
\* it shows the error and clears sessionSet; without one it listens for
\* auth events.
LocationEffect(errorCode) ==
    /\ recovery' = [recovery EXCEPT !.listening = ~errorCode]
    /\ sessionSet' = IF errorCode THEN FALSE ELSE sessionSet
    /\ <<recovery', sessionSet'>> # <<recovery, sessionSet>>
    /\ UNCHANGED <<password, resetLoading, updates, lastReset, appOther, resultsQuery,
                   resultFetches, progressVars>>

\* lines 160-166: the listener sees PASSWORD_RECOVERY.
RecoveryEvent ==
    /\ recovery.listening
    /\ ~sessionSet
    /\ sessionSet' = TRUE
    /\ recovery' = [recovery EXCEPT !.seen = TRUE]
    /\ UNCHANGED <<password, resetLoading, updates, lastReset, appOther, resultsQuery,
                   resultFetches, progressVars>>

\* line 225: onChange of the password input.
TypePassword(p) ==
    /\ p # password
    /\ password' = p
    /\ UNCHANGED <<resetLoading, sessionSet, recovery, updates, lastReset, appOther,
                   resultsQuery, resultFetches, progressVars>>

\* A handler that does not ask whether the link was verified.
handleResetUnverified(pw, verified) ==
    IF pw = "" THEN [called |-> FALSE, error |-> TRUE, loading |-> FALSE]
    ELSE [called |-> TRUE, error |-> FALSE, loading |-> TRUE]

\* lines 179-196, up to the await: whether updateUser is called, whether
\* an error toast is shown, and what is left in loading.
handleReset(pw, verified) ==
    IF pw = "" THEN [called |-> FALSE, error |-> TRUE, loading |-> FALSE]
    ELSE IF ~verified THEN [called |-> FALSE, error |-> TRUE, loading |-> FALSE]
    ELSE [called |-> TRUE, error |-> FALSE, loading |-> TRUE]

\* The form is submitted (onSubmit, line 216).  The handler is run in every
\* state, also those in which the submit button is disabled (line 234).
SubmitReset ==
    LET out == handleReset(password, sessionSet)
    IN  /\ out.called => Len(updates) < MaxUpdates
        /\ updates' = IF out.called
                       THEN Append(updates, [password |-> password, state |-> "pending"])
                       ELSE updates
        /\ resetLoading' = out.loading
        /\ lastReset' = [seen |-> TRUE, password |-> password, sessionSet |-> sessionSet,
                          called |-> out.called, error |-> out.error,
                          loading |-> out.loading]
        /\ UNCHANGED <<password, sessionSet, recovery, appOther, resultsQuery,
                       resultFetches, progressVars>>

\* lines 196-206: updateUser k is answered.
UpdateRespond(k, ok) ==
    /\ updates[k].state = "pending"
    /\ updates' = [updates EXCEPT ![k].state = IF ok THEN "updated" ELSE "failed"]
    /\ resetLoading' = FALSE
    /\ UNCHANGED <<password, sessionSet, recovery, lastReset, appOther, resultsQuery,
                   resultFetches, progressVars>>

NextReset ==
    \/ \E errorCode \in BOOLEAN : LocationEffect(errorCode)
    \/ RecoveryEvent
    \/ \E p \in Passwords : TypePassword(p)
    \/ SubmitReset
    \/ \E k \in 1..Len(updates), ok \in BOOLEAN : UpdateRespond(k, ok)

SpecReset == Init /\ [][NextReset]_vars

(***************************************************************************)
(* Properties.                                                             *)
(***************************************************************************)

\* C1: the visible state is never written on behalf of a subscription that
\* has been torn down: whoever wrote agentProgress last was, as it wrote,
\* the active subscription (or the effect clearing it).
TeardownSafety == writer.live

\* C2: once a fetch of the active subscription has completed, the visible
\* state is the result of the newest-started completed fetch: a fetch that
\* resolves after a fetch started later does not replace its result.
NoStaleRegression ==
    (fresh.has /\ writer.sub = ActiveSub) => agentProgress = fresh.value

\* C3: at most one channel of the hook is live, and it is the one
\* channelRef holds.
OneLiveChannel ==
    /\ Cardinality(channels) <= 1
    /\ channels \subseteq {channelRef}

Resubscribed ==
    /\ subsOpened = 2
    /\ channelRef.sub = 2
    /\ channels = {channelRef}

\* C4: no store read started by a push-scheduled timer starts after the
\* teardown of the subscription the timer belongs to.
NoPushFetchAfterTeardown ==
    \A k \in 1..Len(inflight) : inflight[k].origin = "push" => inflight[k].live

\* C5: after the cleanup has run the interval of the subscription is gone
\* and never fetches again, no channel stays open and channelRef is cleared.
PollingStopped ==
    /\ \A i \in intervals : i.sub = ActiveSub
    /\ \A k \in 1..Len(inflight) : inflight[k].origin = "poll" => inflight[k].live
    /\ ActiveSub = 0 => channelRef = NoChannel /\ channels = {}

TornDown ==
    /\ subsOpened > 0
    /\ ActiveSub = 0
    /\ lastFetchAge = MinFetchInterval

\* C6: every effect run with a non-null queryId fetches first, then opens
\* the channel, then starts the interval.
SeedFetchFirst ==
    ActiveSub # 0 => effectLog = <<"fetch", "channel", "interval">>

\* C7 as claimed: every store read starts at least MinFetchInterval after
\* the previous store read completed.
SpacedFromCompletion == lastStart.gapDone >= MinFetchInterval

\* C7 as amended: in a step taken less than MinFetchInterval after the last
\* store read started, no store read starts and no timer is registered but
\* by a notification: a request inside the interval is dropped, not queued.
SpacedFromStart ==
    [][ sinceStart < MinFetchInterval =>
            /\ Len(inflight') <= Len(inflight)
            /\ Len(timeouts') - Len(timeouts) <= pushes' - pushes ]_vars

RequestDropped ==
    /\ lastStart.dropped
    /\ inflight = <<>>
    /\ timeouts = <<>>
    /\ pushes > 0

\* C8: the storm is over: all its notifications arrived and all their
\* timers fired.
StormOver == storm.n = BurstSize /\ timeouts = <<>>

PushOnlySchedules ==
    [][ /\ pushes' # pushes =>
            /\ agentProgress' = agentProgress
            /\ lastFetchAge' = lastFetchAge
            /\ inflight' = inflight
            /\ Len(timeouts') = Len(timeouts) + 1
            /\ timeouts'[Len(timeouts')].due = DebounceDelay
        /\ agentProgress' # agentProgress =>
            \/ agentProgress' = <<>> /\ queryId' = Null
            \/ \E k \in 1..Len(inflight) :
                /\ inflight[k].resp = "data"
                /\ agentProgress' = mappedProgress(inflight[k].rows)
                /\ Len(inflight') = Len(inflight) - 1 ]_vars

PushScheduled == pushes > 0 /\ timeouts # <<>> /\ agentProgress # <<>>

\* C10: with every notification dropped, the visible state of an open
\* subscription eventually equals, and from then on stays, the latest-per-agent
\* projection of the store's rows of its query.
EventuallyConverges == <>[](ActiveSub # 0 /\ Converged)

\* The store has taken its last write, a request has failed, and the visible
\* state shows the projection.
ConvergedAfterWrites ==
    /\ ActiveSub # 0
    /\ Len(store) = Len(SeedRows) + MaxWrites
    /\ failures = MaxFailures
    /\ Converged

\* C11: while a subscription is open and every request is answered, the
\* visible state does not differ from the projection of the store for longer
\* than PollInterval + Epsilon after a write, whether or not a notification
\* is delivered for the write.
BoundedStaleness == stale <= PollInterval + Epsilon

\* A write has gone unshown for longer than one poll interval, and the
\* answer to a poll that carries it is about to be shown.
StaleOverOnePoll ==
    /\ ActiveSub # 0
    /\ Len(store) > Len(SeedRows)
    /\ stale > PollInterval
    /\ \E k \in 1..Len(inflight) :
          /\ inflight[k].origin = "poll"
          /\ inflight[k].resp = "data"
          /\ inflight[k].rows = FetchRows(queryId)

\* C12: the continuation of a failed store request, whether the store
\* answered with an error or the call threw, leaves the visible state as it
\* was, and the promise of fetchProgress does not reject.
FailedFetchKeepsState ==
    failure.seen => failure.after = failure.before /\ ~failure.rejects

\* A request failed while agents were shown, and they are still shown.
FailureAbsorbed ==
    /\ failure.seen
    /\ failure.before # <<>>
    /\ agentProgress = failure.before

\* C13: a row written after an agent's error has been shown is eventually
\* shown too: the interval keeps fetching whatever the statuses it shows.
UpdateAfterErrorShown ==
    (Len(store) > Len(ErrorRows)) ~> (ActiveSub # 0 /\ Converged)

\* The error was shown, a row was written after that, and the row is shown.
ShownAfterError ==
    /\ ActiveSub # 0
    /\ Len(store) > Len(ErrorRows)
    /\ Converged

\* The agents of a batch, and the rows of one agent in it.
NamesOf(rows) == {rows[k].agent_name : k \in 1..Len(rows)}

RowsOfAgent(rows, a) == {rows[k] : k \in {j \in 1..Len(rows) : rows[j].agent_name = a}}

\* C14: the aggregate of a batch holds one row per agent of the batch, and
\* no row of that agent in the batch has a greater updated_at (a row without
\* a timestamp counting as the oldest), whatever the order of the batch.
LatestWins ==
    aggregated =>
        /\ Len(latest) = Cardinality(NamesOf(batch))
        /\ NamesOf(latest) = NamesOf(batch)
        /\ \A i \in 1..Len(latest) :
              /\ latest[i] \in RowsOfAgent(batch, latest[i].agent_name)
              /\ \A r \in RowsOfAgent(batch, latest[i].agent_name) :
                    r.updated_at <= latest[i].updated_at

\* The batch in the order p, and the entries of an aggregate.
Orders(n) == {p \in [1..n -> 1..n] : \A i, j \in 1..n : p[i] = p[j] => i = j}

Reordered(rows, p) == [k \in 1..Len(rows) |-> rows[p[k]]]

Entries(s) == {s[k] : k \in 1..Len(s)}

Stamped(rows) == \A k \in 1..Len(rows) : rows[k].updated_at # 0

\* C15: the aggregate of a batch has the same entries in whatever order the
\* rows of the batch come, also when rows of one agent carry the same
\* updated_at.  Stated for the batches all of whose rows have a timestamp.
OrderIndependent ==
    (aggregated /\ Stamped(batch)) =>
        \A p \in Orders(Len(batch)) :
            Entries(mappedProgress(Reordered(batch, p))) = Entries(mapped)

\* C16: where the batch holds a row with a timestamp for an agent, the
\* aggregate does not hold a row without one for that agent, whichever of
\* the two comes first in the batch.
StampedSupersedes ==
    aggregated =>
        \A i \in 1..Len(latest) :
            latest[i].updated_at = 0 =>
                \A r \in RowsOfAgent(batch, latest[i].agent_name) : r.updated_at = 0

\* The agents of a batch in the order they are first seen in it.
RECURSIVE FirstSeen(_)
FirstSeen(rows) ==
    IF rows = <<>> THEN <<>>
    ELSE LET before == FirstSeen(SubSeq(rows, 1, Len(rows) - 1))
             name == rows[Len(rows)].agent_name
         IN  IF \E k \in 1..Len(before) : before[k] = name THEN before
             ELSE Append(before, name)

\* C17: the entries of the aggregate come in the order in which their
\* agents are first seen in the batch.
FirstSeenOrder ==
    aggregated => [k \in 1..Len(mapped) |-> mapped[k].name] = FirstSeen(batch)

\* C18: no agent of the batch is filtered out of the aggregate, and each
\* entry carries the status of its row, whatever string it is; only a null
\* or empty status is replaced, by "waiting".
StatusPassesThrough ==
    aggregated =>
        /\ NamesOf(latest) = NamesOf(batch)
        /\ Len(mapped) = Len(latest)
        /\ \A i \in 1..Len(latest) :
              /\ mapped[i].name = latest[i].agent_name
              /\ mapped[i].status = IF latest[i].status \in {Null, ""} THEN "waiting"
                                    ELSE latest[i].status

\* An aggregate with a status the views do not know, passed through, next
\* to an empty status replaced.
UnknownStatusShown ==
    /\ aggregated
    /\ \E i \in 1..Len(latest) : latest[i].status = "paused" /\ mapped[i].status = "paused"
    /\ \E i \in 1..Len(latest) : latest[i].status = "" /\ mapped[i].status = "waiting"

\* C19: the Dashboard fires no more 'Agent Error' toasts than the visible
\* state has changed: a fetch that returns an unchanged aggregate fires none.
ToastPerTransition == toasts <= transitions

\* C20: whenever an entry of the visible state has status "error", the
\* tracker renders the error panel, not the step indicator and not the
\* completion card, whatever the status of the query.
ErrorHaltsDisplay ==
    (mounted = "yes" /\ ErrorSurfaced) => Card(agentProgress, currentStep) = "error panel"

\* An agent's error is shown for a query whose status is "completed".
ErrorOnCompletedQuery ==
    /\ mounted = "yes"
    /\ ErrorSurfaced
    /\ queryStatus = "completed"
    /\ currentStep = "completed"

(***************************************************************************)
(* Query creation.                                                         *)
(***************************************************************************)
\* The POSTs sent for creation m.
PostsOf(m) == {k \in 1..Len(posts) : posts[k].queryId = mutations[m].data}

Last(t) == t[Len(t)]

\* What is true of the POSTs in every state: each one carries the id of a
\* row that a creation inserted and a token; a creation has at most one;
\* a creation that ended without a row (the insert failed, or there was no
\* user) has none and showed an error; one that ended with a row has its
\* POST or showed an error instead.
TriggerLedger ==
    /\ \A k \in 1..Len(posts) :
          /\ posts[k].bearer \in Tokens
          /\ \E m \in 1..Len(mutations) : mutations[m].data = posts[k].queryId
          /\ \E j \in 1..Len(research_queries) :
                research_queries[j].id = posts[k].queryId
    /\ \A m \in 1..Len(mutations) :
          LET mu == mutations[m]
          IN  /\ Cardinality(PostsOf(m)) <= 1
              /\ mu.data = NoId => PostsOf(m) = {}
              /\ (mu.pc = "done" /\ mu.data = NoId) => mu.toasts = <<"error">>
              /\ mu.pc = "post" => Cardinality(PostsOf(m)) = 1
              /\ (mu.pc = "done" /\ mu.data # NoId) =>
                    \/ Cardinality(PostsOf(m)) = 1
                    \/ mu.toasts = <<"success", "error">>

\* What is true of every step that ends a creation's wait for its session:
\* with a token in the session the step sends one POST with the id of the
\* creation's row and that token, without one it sends nothing and shows an
\* error; no other step sends a POST.
TriggerStep ==
    /\ \A m \in 1..Len(mutations) :
          (mutations[m].pc = "session" /\ mutations'[m].pc # "session") =>
              IF session.access_token = Null
              THEN /\ posts' = posts
                   /\ mutations'[m].pc = "done"
                   /\ mutations'[m].toasts = Append(mutations[m].toasts, "error")
              ELSE posts' = Append(posts, [queryId |-> mutations[m].data,
                                           bearer |-> session.access_token])
    /\ posts' # posts =>
          \E m \in 1..Len(mutations) :
              mutations[m].pc = "session" /\ mutations'[m].pc = "post"

\* C21: the workflow trigger is sent only after the row was inserted, once
\* per creation that got its row, with that row's id and the token of the
\* session; when the insert fails, or there is no user or no token, no POST
\* is sent and an error is shown.
TriggerAfterInsert == []TriggerLedger /\ [][TriggerStep]_vars

\* One creation has been triggered, another ended on a failed insert.
TriggeredAndFailed ==
    \E m, n \in 1..Len(mutations) :
        /\ mutations[m].pc = "done" /\ Cardinality(PostsOf(m)) = 1
        /\ mutations[n].pc = "done" /\ mutations[n].data = NoId
        /\ mutations[n].user_id # Null

\* The rows a creation of the behaviour inserted.
RowsOfCreation(m) ==
    {j \in 1..Len(research_queries) : research_queries[j].id = mutations[m].data}

\* C22: a query created through createQuery is inserted with status
\* 'initializing' and the fields of the form, whatever the form held; a
\* creation without a user inserts no row and shows an error; every other
\* row was there before.
InsertedInitializing ==
    /\ \A m \in 1..Len(mutations) :
          LET mu == mutations[m]
          IN  /\ mu.data # NoId =>
                    /\ Cardinality(RowsOfCreation(m)) = 1
                    /\ \A j \in RowsOfCreation(m) :
                          /\ research_queries[j].status = "initializing"
                          /\ research_queries[j].topic = mu.query.topic
                          /\ research_queries[j].depth = mu.query.depth
                          /\ research_queries[j].user_id = mu.user_id
              /\ mu.user_id = Null =>
                    mu.data = NoId /\ mu.pc = "done" /\ mu.toasts = <<"error">>
    /\ \A j \in 1..Len(research_queries) :
          \/ research_queries[j] = EarlierRow
          \/ \E m \in 1..Len(mutations) :
                mutations[m].data = research_queries[j].id /\ mutations[m].user_id # Null

\* A signed-in creation got its row, a creation without a user was refused.
CreatedAndRefused ==
    \E m, n \in 1..Len(mutations) :
        /\ mutations[m].data # NoId
        /\ mutations[m].query.depth = "Expert-Level Deep Dive"
        /\ mutations[n].user_id = Null

(***************************************************************************)
(* The research form.                                                      *)
(***************************************************************************)
\* A topic that is empty or made of white space only.
EmptyTopic(t) == \A i \in 1..Len(t) : t[i] \in WhiteSpace

\* C23: a submission whose topic is empty or white space only is not
\* passed to onSubmit and leaves the form as it was; no creation and no row
\* has such a topic.
BlankNeverSubmitted ==
    /\ (lastSubmit.seen /\ EmptyTopic(lastSubmit.topic)) =>
          ~lastSubmit.passed /\ lastSubmit.kept
    /\ \A m \in 1..Len(mutations) : ~EmptyTopic(mutations[m].query.topic)
    /\ \A j \in 1..Len(research_queries) : ~EmptyTopic(research_queries[j].topic)

\* A white-space topic was submitted and is still in the form.
WhiteSpaceRejected ==
    /\ lastSubmit.seen
    /\ lastSubmit.topic = <<" ">>
    /\ formData.topic = <<" ">>
    /\ formData.depth = "expert"

(***************************************************************************)
(* The pages.                                                              *)
(***************************************************************************)
PageViews == {ProgressPage, ResultsPage}

\* The store holds a query of the user with the id of the URL.
Exists ==
    \E j \in 1..Len(research_queries) :
        research_queries[j].id = urlId /\ research_queries[j].user_id = user

\* The pages tell not found from loading by the list they hold.
NotFoundFromList ==
    \A view \in PageViews :
        /\ view = "not found" <=> (~loading /\ user # Null /\ queries.loaded /\ ~Found)
        /\ (loading \/ ~queries.loaded) => view = "nothing"

\* C24: the pages show not found only when auth has loaded, a user is
\* present, the list has loaded and holds no query with the id of the URL;
\* while auth or the list is loading they render nothing; and a query that
\* exists in the store is never reported as not found.
NotFoundOnlyWhenAbsent ==
    /\ NotFoundFromList
    /\ \A view \in PageViews : view = "not found" => ~Exists

(***************************************************************************)
(* ResultsDisplay.                                                         *)
(***************************************************************************)
\* C25: every result fetch ResultsDisplay issued was issued for a query
\* that had an id and status 'completed' as the fetch was issued.
FetchOnlyCompleted ==
    \A k \in 1..Len(resultFetches) :
        resultFetches[k].id # NoId /\ resultFetches[k].status = "completed"

\* After the fetch for a completed query the component renders a query
\* that has an id and is not completed, and no fetch was added.
NoFetchForOthers ==
    /\ Len(resultFetches) = 1
    /\ resultsQuery.id # NoId
    /\ resultsQuery.status \notin {"completed", Null}

(***************************************************************************)
(* The visible state and the active query.                                 *)
(***************************************************************************)
\* C26: the visible state holds only what was read for the queryId of the
\* hook: it is empty while queryId is null, and what it shows was fetched
\* for the current queryId, never for an earlier one.
OnlyActiveQueryShown ==
    mounted = "yes" =>
        /\ queryId = Null => agentProgress = <<>>
        /\ agentProgress # <<>> => writer.query = queryId

(***************************************************************************)
(* The Dashboard's selection.                                              *)
(***************************************************************************)
\* C27: once the creation of a submitted query has succeeded and its
\* 1000 ms callback has run, the selectedQueryId the callback left is the
\* id of the created query.
SelectsCreatedQuery ==
    \A m \in 1..Len(mutations) :
        (mutations[m].data # NoId /\ mutations[m].selected # Pending) =>
            mutations[m].selected = mutations[m].data

(***************************************************************************)
(* ResetPassword.                                                          *)
(***************************************************************************)
\* C28: handleReset calls updateUser exactly when the password is not
\* empty and sessionSet is true, which it is only after a PASSWORD_RECOVERY
\* event; otherwise it calls nothing, shows an error and leaves loading
\* false.  No update carries an empty password.
UpdateOnlyWhenVerified ==
    /\ lastReset.seen =>
          IF lastReset.password # "" /\ lastReset.sessionSet
          THEN lastReset.called
          ELSE ~lastReset.called /\ lastReset.error /\ ~lastReset.loading
    /\ \A k \in 1..Len(updates) : updates[k].password # ""
    /\ updates # <<>> => recovery.seen
    /\ sessionSet => recovery.seen

\* A password was updated after the recovery event; a later submission,
\* after the location changed to one with an error code, was refused.
UpdatedThenRefused ==
    /\ updates # <<>>
    /\ lastReset.seen
    /\ lastReset.password # ""
    /\ ~lastReset.sessionSet
    /\ ~lastReset.called

(***************************************************************************)
(* The step indicator.                                                     *)
(***************************************************************************)
StepStatus == [k \in 1..Len(steps) |-> getStepStatus(steps[k], currentStep)]

\* C29: for every currentStep at most one of the four steps is active,
\* every step before an active one is completed and every step after it
\* is waiting; for "waiting" and for a status outside the tracker's list
\* no step is completed or active.
StepsPartitioned ==
    mounted = "yes" =>
        /\ \A j, k \in 1..Len(steps) :
               StepStatus[j] = "active" /\ StepStatus[k] = "active" => j = k
        /\ \A k \in 1..Len(steps) :
               StepStatus[k] = "active" =>
                   /\ \A j \in 1..(k - 1) : StepStatus[j] = "completed"
                   /\ \A j \in (k + 1)..Len(steps) : StepStatus[j] = "waiting"
        /\ (currentStep = "waiting" \/ currentStep \in UnknownStates) =>
               \A k \in 1..Len(steps) : StepStatus[k] = "waiting"

\* The tracker shows the third step active, the two before it completed
\* and the last one waiting.
ThirdStepActive ==
    /\ mounted = "yes"
    /\ currentStep = "analyzing"
    /\ StepStatus = <<"completed", "completed", "active", "waiting">>

\* C30: getOverallProgress is between 0 and 100 for every currentStep,
\* is 20 times the position of a status of the tracker's list, does not
\* decrease along that list, and is 0 for a status outside it.
ProgressWithinBounds ==
    /\ mounted = "yes" =>
          /\ getOverallProgress(currentStep) \in 0..100
          /\ \A k \in 1..Len(TrackerStates) :
                 currentStep = TrackerStates[k] =>
                     getOverallProgress(currentStep) = 20 * (k - 1)
          /\ \A k \in 1..Len(TrackerStates) :
                 indexOf(TrackerStates, currentStep) <= k - 1 =>
                     getOverallProgress(currentStep) <= getOverallProgress(TrackerStates[k])
          /\ currentStep \notin QueryStatuses => getOverallProgress(currentStep) = 0

\* The tracker shows a query whose status is outside its list, at 0 %.
UnknownStatusAtZero ==
    /\ mounted = "yes"
    /\ currentStep \in UnknownStates
    /\ queryStatus = currentStep
    /\ getOverallProgress(currentStep) = 0
====
